---------------------------- MODULE Spec2Model ----------------------------
(***************************************************************************)
(* Model of the two game engines of go-game (snake and tetris) and of the  *)
(* Run loops that drive them.                                              *)
(*                                                                         *)
(* Engine methods are operators on a game record; the handlers of the Run  *)
(* loops are the actions.  The random source is an input: every draw is    *)
(* an existentially chosen value of the range Intn may return.             *)
(***************************************************************************)
EXTENDS Integers, Sequences, FiniteSets, TLC

VARIABLES
    sgame,   \* the snake Game record
    steps,   \* number of move() calls since the last reset
    turns,   \* number of move() calls since the last reset that changed direction
    tgame,   \* the tetris Game record
    cmds,    \* number of tetris commands (keys and timed drops) since the last reset
    input,   \* the game clearLines was last called on
    heap,    \* the shape arrays in memory (arr) and the one currShape refers to
             \* (curr), where the arrays are modelled
    last     \* the last operation (op), what it returned (ok), and whether it
             \* ate (ate, snake) or the number of rows it cleared (n, tetris);
             \* for a key that was not applied, the key (dir); for a move(dx,
             \* dy) called directly, the offsets (dx, dy); in the loops taken
             \* one iteration per step, the place in the loop (op, calls, y,
             \* iters); with the arrays modelled, the array read (from)

\* The value of a game variable while the other game is the one running.
NoGame == [none |-> TRUE]

svars == <<sgame, steps, turns>>
tvars == <<tgame, cmds, input, heap>>
vars == <<sgame, steps, turns, tgame, cmds, input, heap, last>>

(***************************************************************************)
(* Bounds of the exploration.                                              *)
(***************************************************************************)
\* move() is called at most MaxSteps times between two resets, unless the
\* snake has not turned since the last reset: then at most StraightRun times
\* (enough to run from the start into the wall).
MaxSteps == 5
StraightRun == 8
\* At most MaxTurns of the moves between two resets change the direction.
MaxTurns == 3
\* At most MaxCmds tetris commands are handled between two resets.
MaxCmds == 3
\* At most MaxCalls engine methods are called between two resets when the
\* methods are called without the guards of Run.
MaxCalls == 2
\* The tetris games such calls start from have the piece rotated at most
\* PlaceTurns times, in row 0 or at most DropGap rows above its landing row.
PlaceTurns == 1
DropGap == 0
\* The tick periods are explored for the scores of up to MaxFoods foods eaten
\* and for the levels up to MaxLevel.
MaxFoods == 120
MaxLevel == 25
\* The boards clearLines is explored on vary in WindowRows rows from row
\* WindowTop on.
WindowTop == 3
WindowRows == 5
\* The draws explored for a new nextPiece are the first DrawLimit values of
\* those Intn(len(Shapes)) may return; the first piece of a game is any shape.
DrawLimit == 2
\* A tetris run starts from a new game, from a game in which StartRounds I
\* pieces stand stacked upright in one column, or from one in which the
\* lowest 4 * StartRounds rows are full except for the last column.
StartRounds == 4
\* The draws of the snake's random source that are explored select a cell in
\* the row or the column of the snake's head, at most FoodSpread cells away.
FoodSpread == 1

(***************************************************************************)
(* snake: constants and data                                               *)
(***************************************************************************)
SnakeBoardWidth == 20
SnakeBoardHeight == 15

Direction == {"Up", "Down", "Left", "Right"}

Point(px, py) == [x |-> px, y |-> py]

Abs(n) == IF n < 0 THEN -n ELSE n

\* The body a new or reset game starts with.
StartSnake ==
    << Point(SnakeBoardWidth \div 2, SnakeBoardHeight \div 2),
       Point(SnakeBoardWidth \div 2, SnakeBoardHeight \div 2 + 1),
       Point(SnakeBoardWidth \div 2, SnakeBoardHeight \div 2 + 2) >>

ZeroSnakeBoard ==
    [y \in 0..(SnakeBoardHeight - 1) |-> [x \in 0..(SnakeBoardWidth - 1) |-> 0]]

\* NewGame: the record as constructed, before the first spawnFood.
SnakeNewGame ==
    [ board     |-> ZeroSnakeBoard,
      snake     |-> StartSnake,
      food      |-> Point(0, 0),
      direction |-> "Up",
      nextDir   |-> "Up",
      score     |-> 0,
      length    |-> 3,
      paused    |-> FALSE,
      gameOver  |-> FALSE ]

\* The cells of the board.
SnakeCells ==
    {Point(cx, cy) : cx \in 0..(SnakeBoardWidth - 1), cy \in 0..(SnakeBoardHeight - 1)}

\* Whether spawnFood's candidate list (the cells whose board entry is 0) is
\* not empty.
hasEmptyPoint(g) == \E p \in SnakeCells : g.board[p.y][p.x] = 0

\* spawnFood, with c the candidate that the value rng.Intn(len(emptyPoints))
\* selects: any one cell of the candidate list.
spawnFood(g, c) ==
    IF hasEmptyPoint(g) THEN [g EXCEPT !.food = c] ELSE g

\* The draws explored for a spawnFood on g: the candidates in the head's row
\* or column at most FoodSpread cells away from the head; the food cell alone
\* when there is no candidate, where no draw is made.
FoodDraws(g) ==
    LET h    == g.snake[1]
        near == {Point(h.x + dx, h.y + dy) :
                    dx \in (-FoodSpread)..FoodSpread, dy \in (-FoodSpread)..FoodSpread}
    IN  IF ~hasEmptyPoint(g) THEN {g.food}
        ELSE {c \in near \cap SnakeCells :
                /\ c.x = h.x \/ c.y = h.y
                /\ g.board[c.y][c.x] = 0}

\* The head cell one step along direction d.
Advance(p, d) ==
    CASE d = "Up"    -> Point(p.x, p.y - 1)
      [] d = "Down"  -> Point(p.x, p.y + 1)
      [] d = "Left"  -> Point(p.x - 1, p.y)
      [] d = "Right" -> Point(p.x + 1, p.y)

\* collides without the test of the top wall.
snakeCollidesNoTopWall(g, head) ==
    \/ head.x < 0
    \/ head.x >= SnakeBoardWidth
    \/ head.y >= SnakeBoardHeight
    \/ \E i \in 1..(Len(g.snake) - 1) : g.snake[i] = head

\* collides: the wall test, then the body without its last cell.
snakeCollides(g, head) ==
    \/ head.x < 0
    \/ head.x >= SnakeBoardWidth
    \/ head.y < 0
    \/ head.y >= SnakeBoardHeight
    \/ \E i \in 1..(Len(g.snake) - 1) : g.snake[i] = head

\* move that never drops the tail.
snakeMoveKeepTail(g, r) ==
    LET g1   == [g EXCEPT !.direction = g.nextDir]
        head == Advance(g1.snake[1], g1.direction)
    IN  IF snakeCollides(g1, head)
        THEN [game |-> [g1 EXCEPT !.gameOver = TRUE], ok |-> FALSE, ate |-> FALSE]
        ELSE LET ateFood == (head = g1.food)
                 g2      == [g1 EXCEPT !.snake = <<head>> \o g1.snake]
             IN  IF ateFood
                 THEN [game |-> spawnFood([g2 EXCEPT !.score = g2.score + 10,
                                                     !.length = g2.length + 1], r),
                       ok |-> TRUE, ate |-> TRUE]
                 ELSE [game |-> g2, ok |-> TRUE, ate |-> FALSE]

\* move with r the candidate drawn by the spawnFood it may call: the game afterwards,
\* the value returned, and whether food was eaten.
snakeMove(g, r) ==
    LET g1   == [g EXCEPT !.direction = g.nextDir]
        head == Advance(g1.snake[1], g1.direction)
    IN  IF snakeCollides(g1, head)
        THEN [game |-> [g1 EXCEPT !.gameOver = TRUE], ok |-> FALSE, ate |-> FALSE]
        ELSE LET ateFood == (head = g1.food)
                 g2      == [g1 EXCEPT !.snake = <<head>> \o g1.snake]
             IN  IF ateFood
                 THEN [game |-> spawnFood([g2 EXCEPT !.score = g2.score + 10,
                                                     !.length = g2.length + 1], r),
                       ok |-> TRUE, ate |-> TRUE]
                 ELSE [game |-> IF Len(g2.snake) > g2.length
                                THEN [g2 EXCEPT !.snake =
                                        SubSeq(g2.snake, 1, Len(g2.snake) - 1)]
                                ELSE g2,
                       ok |-> TRUE, ate |-> FALSE]

\* reset taking length from the body it is about to replace.
snakeResetFieldsOldLength(g) ==
    [g EXCEPT !.board     = ZeroSnakeBoard,
              !.snake     = StartSnake,
              !.direction = "Up",
              !.nextDir   = "Up",
              !.score     = 0,
              !.length    = Len(g.snake),
              !.paused    = FALSE,
              !.gameOver  = FALSE]

\* reset, before its trailing spawnFood.
snakeResetFields(g) ==
    [g EXCEPT !.board     = ZeroSnakeBoard,
              !.snake     = StartSnake,
              !.direction = "Up",
              !.nextDir   = "Up",
              !.score     = 0,
              !.length    = 3,
              !.paused    = FALSE,
              !.gameOver  = FALSE]

\* reset with r the draw of its spawnFood.
snakeReset(g, r) == spawnFood(snakeResetFields(g), r)

Opposite(d) ==
    CASE d = "Up"    -> "Down"
      [] d = "Down"  -> "Up"
      [] d = "Left"  -> "Right"
      [] d = "Right" -> "Left"

\* The direction keys, testing the request against the pending nextDir
\* instead of the direction of the last move.
requestDirectionAgainstNext(g, d) ==
    IF g.nextDir # Opposite(d) THEN [g EXCEPT !.nextDir = d] ELSE g

\* The direction keys of Run: the request is stored unless it reverses the
\* direction of the last move.
requestDirection(g, d) ==
    IF g.direction # Opposite(d) THEN [g EXCEPT !.nextDir = d] ELSE g

(***************************************************************************)
(* tetris: constants and data                                              *)
(***************************************************************************)
BoardWidth == 10
BoardHeight == 20

\* The seven shapes, in the order of the Shapes table (index 0 is I).
Shapes ==
    << << <<1, 1, 1, 1>> >>,
       << <<1, 1>>, <<1, 1>> >>,
       << <<0, 1, 0>>, <<1, 1, 1>> >>,
       << <<0, 1, 1>>, <<1, 1, 0>> >>,
       << <<1, 1, 0>>, <<0, 1, 1>> >>,
       << <<1, 0, 0>>, <<1, 1, 1>> >>,
       << <<0, 0, 1>>, <<1, 1, 1>> >> >>

NumShapes == Len(Shapes)

ZeroRow == [x \in 0..(BoardWidth - 1) |-> 0]

ZeroBoard == [y \in 0..(BoardHeight - 1) |-> ZeroRow]

\* NewGame: the record as constructed, before the first spawnPiece.
TetrisNewGame ==
    [ board     |-> ZeroBoard,
      currPiece |-> 0,
      currShape |-> << >>,
      nextPiece |-> 0,
      pieceX    |-> BoardWidth \div 2 - 1,
      pieceY    |-> 0,
      score     |-> 0,
      lines     |-> 0,
      level     |-> 1,
      paused    |-> FALSE,
      gameOver  |-> FALSE ]

\* The (x, y) offsets of the filled cells of a shape matrix.
FilledCells(shape) ==
    {c \in (0..(Len(shape[1]) - 1)) \X (0..(Len(shape) - 1)) :
        shape[c[2] + 1][c[1] + 1] = 1}

\* collides without the test of the locked cells.
collidesEdgesOnly(g) ==
    \E c \in FilledCells(g.currShape) :
        LET boardX == g.pieceX + c[1]
            boardY == g.pieceY + c[2]
        IN  \/ boardX < 0
            \/ boardX >= BoardWidth
            \/ boardY >= BoardHeight

\* collides: some filled cell is outside the side or bottom edges, or on a
\* non-zero board cell of a row >= 0.
collides(g) ==
    \E c \in FilledCells(g.currShape) :
        LET boardX == g.pieceX + c[1]
            boardY == g.pieceY + c[2]
        IN  \/ boardX < 0
            \/ boardX >= BoardWidth
            \/ boardY >= BoardHeight
            \/ (boardY >= 0 /\ g.board[boardY][boardX] # 0)

\* The matrix rotate builds: rotated[x][rows-1-y] = shape[y][x].
rotated(shape) ==
    LET rows == Len(shape)
        cols == Len(shape[1])
    IN  [i \in 1..cols |-> [j \in 1..rows |-> shape[rows - j + 1][i]]]

\* rotate that keeps the rotated matrix even when it collides.
rotateNoRollback(g) ==
    LET g1 == [g EXCEPT !.currShape = rotated(g.currShape)]
    IN  [game |-> g1, ok |-> ~collides(g1)]

\* rotate: the game afterwards, and whether the rotated matrix was kept.
rotate(g) ==
    LET g1 == [g EXCEPT !.currShape = rotated(g.currShape)]
    IN  IF collides(g1) THEN [game |-> g, ok |-> FALSE]
                        ELSE [game |-> g1, ok |-> TRUE]

\* move that keeps the offset even when the piece collides there.
moveNoRevert(g, dx, dy) ==
    LET g1 == [g EXCEPT !.pieceX = g.pieceX + dx, !.pieceY = g.pieceY + dy]
    IN  [game |-> g1, ok |-> ~collides(g1)]

\* move(dx, dy): the game afterwards and the value returned.
move(g, dx, dy) ==
    LET g1 == [g EXCEPT !.pieceX = g.pieceX + dx, !.pieceY = g.pieceY + dy]
    IN  IF collides(g1) THEN [game |-> g, ok |-> FALSE]
                        ELSE [game |-> g1, ok |-> TRUE]

\* lockPiece that leaves out the cells of row 0.
lockPieceBelowTop(g) ==
    LET cells == {<<g.pieceX + c[1], g.pieceY + c[2]>> : c \in FilledCells(g.currShape)}
    IN  [g EXCEPT !.board =
            [y \in 0..(BoardHeight - 1) |->
                [x \in 0..(BoardWidth - 1) |->
                    IF <<x, y>> \in cells /\ y > 0 THEN g.currPiece + 1
                    ELSE g.board[y][x]]]]

\* lockPiece: the filled cells inside the board take currPiece + 1.
lockPiece(g) ==
    LET cells == {<<g.pieceX + c[1], g.pieceY + c[2]>> : c \in FilledCells(g.currShape)}
    IN  [g EXCEPT !.board =
            [y \in 0..(BoardHeight - 1) |->
                [x \in 0..(BoardWidth - 1) |->
                    IF <<x, y>> \in cells THEN g.currPiece + 1 ELSE g.board[y][x]]]]

complete(row) == \A x \in 0..(BoardWidth - 1) : row[x] # 0

\* The rows above y moved down by one, and row 0 cleared.
shiftDown(board, y) ==
    [r \in 0..(BoardHeight - 1) |->
        IF r = 0 THEN ZeroRow
        ELSE IF r <= y THEN board[r - 1]
        ELSE board[r]]

\* The scan without the re-examination of the row just filled from above.
RECURSIVE clearScanNoRecheck(_, _, _)
clearScanNoRecheck(board, y, n) ==
    IF y < 0 THEN [board |-> board, n |-> n]
    ELSE IF complete(board[y]) THEN clearScanNoRecheck(shiftDown(board, y), y - 1, n + 1)
    ELSE clearScanNoRecheck(board, y - 1, n)

\* The scan of clearLines from row y upwards with n rows cleared so far: a
\* complete row is removed and the same index examined again.
RECURSIVE clearScan(_, _, _)
clearScan(board, y, n) ==
    IF y < 0 THEN [board |-> board, n |-> n]
    ELSE IF complete(board[y]) THEN clearScan(shiftDown(board, y), y, n + 1)
    ELSE clearScan(board, y - 1, n)

scoreTable == <<0, 100, 300, 500, 800>>

\* The update with the level raised before the score is added.
updateScoreNewLevel(g, n) ==
    IF n > 0
    THEN LET lines == g.lines + n
             level == lines \div 10 + 1
         IN  [g EXCEPT !.lines = lines,
                       !.level = level,
                       !.score = g.score + scoreTable[n + 1] * level]
    ELSE g

\* The score and level update of clearLines after n rows were cleared; the
\* table is indexed by n (an index above 4 is out of range).
updateScore(g, n) ==
    IF n > 0
    THEN LET lines == g.lines + n
         IN  [g EXCEPT !.lines = lines,
                       !.score = g.score + scoreTable[n + 1] * g.level,
                       !.level = lines \div 10 + 1]
    ELSE g

\* clearLines with a scan that starts one row above the bottom row.
clearLinesAboveBottom(g) ==
    LET s == clearScan(g.board, BoardHeight - 2, 0)
    IN  [game |-> updateScore([g EXCEPT !.board = s.board], s.n), n |-> s.n]

\* clearLines: the game afterwards and the number of rows cleared.
clearLines(g) ==
    LET s == clearScan(g.board, BoardHeight - 1, 0)
    IN  [game |-> updateScore([g EXCEPT !.board = s.board], s.n), n |-> s.n]

\* spawnPiece that puts every piece in the column of the two-wide one.
spawnPieceFixedColumn(g, r1, r2) ==
    LET piece == IF g.nextPiece = 0 THEN r1 ELSE g.nextPiece - 1
        shape == Shapes[piece + 1]
        g1    == [g EXCEPT !.currPiece = piece,
                           !.currShape = shape,
                           !.pieceX    = BoardWidth \div 2 - 1,
                           !.pieceY    = 0,
                           !.nextPiece = r2 + 1]
    IN  IF collides(g1) THEN [g1 EXCEPT !.gameOver = TRUE] ELSE g1

\* spawnPiece with r1 the draw made when nextPiece is unset and r2 the draw
\* of the new nextPiece.
spawnPiece(g, r1, r2) ==
    LET piece == IF g.nextPiece = 0 THEN r1 ELSE g.nextPiece - 1
        shape == Shapes[piece + 1]
        g1    == [g EXCEPT !.currPiece = piece,
                           !.currShape = shape,
                           !.pieceX    = BoardWidth \div 2 - Len(shape[1]) \div 2,
                           !.pieceY    = 0,
                           !.nextPiece = r2 + 1]
    IN  IF collides(g1) THEN [g1 EXCEPT !.gameOver = TRUE] ELSE g1

\* drop that calls clearLines before lockPiece.
dropClearBeforeLock(g, r1, r2) ==
    LET m == move(g, 0, 1)
    IN  IF ~m.ok
        THEN LET c == clearLines(m.game)
             IN  [game |-> spawnPiece(lockPiece(c.game), r1, r2), ok |-> FALSE,
                  n |-> c.n, at |-> <<m.game.pieceX, m.game.pieceY>>]
        ELSE [game |-> m.game, ok |-> TRUE, n |-> 0,
              at |-> <<m.game.pieceX, m.game.pieceY>>]

\* drop: the game afterwards, the value returned, the rows cleared, and
\* the position (pieceX, pieceY) the piece was moved to or locked at.
drop(g, r1, r2) ==
    LET m == move(g, 0, 1)
    IN  IF ~m.ok
        THEN LET c == clearLines(lockPiece(m.game))
             IN  [game |-> spawnPiece(c.game, r1, r2), ok |-> FALSE, n |-> c.n,
                  at |-> <<m.game.pieceX, m.game.pieceY>>]
        ELSE [game |-> m.game, ok |-> TRUE, n |-> 0,
              at |-> <<m.game.pieceX, m.game.pieceY>>]

\* The hard drop loop of Run: drop until it returns false.
RECURSIVE hardDrop(_, _, _)
hardDrop(g, r1, r2) ==
    LET d == drop(g, r1, r2)
    IN  IF d.ok THEN hardDrop(d.game, r1, r2) ELSE d

\* The test of getGhostPosition's loop made on the piece's own row instead
\* of the row below it.
canMoveNoLookahead(g, ghostY) ==
    \A c \in FilledCells(g.currShape) :
        LET boardX == g.pieceX + c[1]
            boardY == ghostY + c[2]
        IN  /\ ~(boardY >= BoardHeight)
            /\ ~(boardY >= 0 /\ g.board[boardY][boardX] # 0)

\* Whether the piece at row ghostY can go one row further down, as the loop
\* of getGhostPosition tests it.
canMove(g, ghostY) ==
    \A c \in FilledCells(g.currShape) :
        LET boardX == g.pieceX + c[1]
            boardY == ghostY + c[2] + 1
        IN  /\ ~(boardY >= BoardHeight)
            /\ ~(boardY >= 0 /\ g.board[boardY][boardX] # 0)

RECURSIVE ghostFrom(_, _)
ghostFrom(g, ghostY) ==
    IF canMove(g, ghostY) THEN ghostFrom(g, ghostY + 1) ELSE ghostY

\* getGhostPosition: (pieceX, the lowest row the loop reaches).
getGhostPosition(g) == <<g.pieceX, ghostFrom(g, g.pieceY)>>

\* reset with the draws of its spawnPiece.
tetrisReset(g, r1, r2) ==
    spawnPiece([g EXCEPT !.board     = ZeroBoard,
                         !.score     = 0,
                         !.lines     = 0,
                         !.level     = 1,
                         !.nextPiece = 0,
                         !.paused    = FALSE,
                         !.gameOver  = FALSE], r1, r2)

(***************************************************************************)
(* snake: the Run loop                                                     *)
(***************************************************************************)
\* Run up to its loop: NewGame, then spawnFood.
SnakeInit ==
    /\ \E r \in FoodDraws(SnakeNewGame) : sgame = spawnFood(SnakeNewGame, r)
    /\ steps = 0
    /\ turns = 0
    /\ last = [op |-> "new", ok |-> TRUE, ate |-> FALSE]
    /\ tgame = NoGame
    /\ cmds = 0
    /\ input = NoGame
    /\ heap = NoGame

\* 'r' while the game is over.
RestartAfterGameOver ==
    /\ sgame.gameOver
    /\ \E r \in FoodDraws(snakeResetFields(sgame)) : sgame' = snakeReset(sgame, r)
    /\ last' = [op |-> "reset", ok |-> TRUE, ate |-> FALSE]
    /\ steps' = 0
    /\ turns' = 0
    /\ UNCHANGED tvars

\* 'p': pause or continue.
PauseKey ==
    /\ ~sgame.gameOver
    /\ sgame' = [sgame EXCEPT !.paused = ~sgame.paused]
    /\ last' = [op |-> "key", ok |-> TRUE, ate |-> FALSE]
    /\ UNCHANGED <<steps, turns, tvars>>

\* An arrow key while the game runs.
DirectionKey ==
    /\ ~sgame.gameOver
    /\ ~sgame.paused
    /\ \E d \in Direction : sgame' = requestDirection(sgame, d)
    /\ last' = [op |-> "key", ok |-> TRUE, ate |-> FALSE]
    /\ UNCHANGED <<steps, turns, tvars>>

\* 'r' while the game runs.
RestartKey ==
    /\ ~sgame.gameOver
    /\ ~sgame.paused
    /\ \E r \in FoodDraws(snakeResetFields(sgame)) : sgame' = snakeReset(sgame, r)
    /\ last' = [op |-> "reset", ok |-> TRUE, ate |-> FALSE]
    /\ steps' = 0
    /\ turns' = 0
    /\ UNCHANGED tvars

\* An arrow key that is applied although the game is over or paused.
KeyWhileStoppedApplied ==
    /\ sgame.gameOver \/ sgame.paused
    /\ \E d \in Direction :
          /\ sgame' = requestDirection(sgame, d)
          /\ last' = [op |-> "ignored", ok |-> FALSE, ate |-> FALSE, dir |-> d]
    /\ UNCHANGED <<steps, turns, tvars>>

\* An arrow key while the game is over or paused: the handler returns to the
\* loop before the direction keys are looked at; last.dir is the key.
KeyWhileStopped ==
    /\ sgame.gameOver \/ sgame.paused
    /\ \E d \in Direction :
          last' = [op |-> "ignored", ok |-> FALSE, ate |-> FALSE, dir |-> d]
    /\ UNCHANGED <<sgame, steps, turns, tvars>>

\* The draws explored for a move() on g: those of the spawnFood it calls when
\* the new head is on the food, and 0 alone when it makes no draw.
MoveDraws(g) ==
    LET head == Advance(g.snake[1], g.nextDir)
    IN  IF head = g.food /\ ~snakeCollides(g, head)
        THEN FoodDraws([g EXCEPT !.snake = <<head>> \o g.snake])
        ELSE {0}

\* The timed move of the loop.
AutoMove ==
    /\ ~sgame.gameOver
    /\ ~sgame.paused
    /\ \/ steps < MaxSteps
       \/ turns = 0 /\ sgame.nextDir = sgame.direction /\ steps < StraightRun
    /\ \E r \in MoveDraws(sgame) :
          LET m == snakeMove(sgame, r)
          IN  /\ sgame' = m.game
              /\ last' = [op |-> "move", ok |-> m.ok, ate |-> m.ate]
    /\ steps' = steps + 1
    /\ turns' = IF sgame.nextDir # sgame.direction THEN turns + 1 ELSE turns
    /\ turns' <= MaxTurns
    /\ UNCHANGED tvars

SnakeNext ==
    \/ RestartAfterGameOver
    \/ PauseKey
    \/ DirectionKey
    \/ RestartKey
    \/ KeyWhileStopped
    \/ AutoMove

SnakeSpec == SnakeInit /\ [][SnakeNext]_vars

(***************************************************************************)
(* tetris: the Run loop                                                    *)
(***************************************************************************)
\* The values Intn(len(Shapes)) may return.
ShapeDraws == 0..(NumShapes - 1)

\* The draws explored for a new nextPiece.
NextDraws == {r \in ShapeDraws : r < DrawLimit}

\* The draws (r1 for the current piece, r2 for nextPiece) of the spawnPiece
\* that a drop() on g makes: none (0 stands for it) when the piece moves down.
DropDraws(g) ==
    IF move(g, 0, 1).ok THEN {<<0, 0>>}
    ELSE (IF g.nextPiece = 0 THEN ShapeDraws ELSE {0}) \X NextDraws

\* The board after n rounds in which Run handles KeyUp, KeyRight and the
\* space key on an I piece: rotate() stands it up in column 3, move(1, 0)
\* takes it to column 4 and the hard drop locks it on top of the earlier
\* ones, BoardHeight \div 4 rounds at most. No row is complete, so nothing
\* is cleared and score, lines and level keep their starting values.
stackBoard(n) ==
    [y \in 0..(BoardHeight - 1) |->
        [x \in 0..(BoardWidth - 1) |->
            IF x = 4 /\ y >= BoardHeight - 4 * n THEN 1 ELSE 0]]

\* The game Run reaches from a new game after n such rounds, when the draws
\* were I pieces up to the last spawnPiece, which made k1 the current piece
\* and k2 the next one.
inProgress(n, k1, k2) ==
    spawnPiece([TetrisNewGame EXCEPT !.board = stackBoard(n)], k1, k2)

\* The board after rounds in which Run hard-drops I pieces only: lying
\* pieces in columns 0-3 and 4-7 and upright ones in column 8 fill the
\* lowest 4 * StartRounds rows except for column 9, and three lying pieces
\* in columns 2-5 lie on top of them. Column 9 is empty, so no row is
\* complete and nothing was cleared.
wellBoard ==
    LET top == BoardHeight - 4 * StartRounds
    IN  [y \in 0..(BoardHeight - 1) |->
            [x \in 0..(BoardWidth - 1) |->
                IF y >= top THEN (IF x = BoardWidth - 1 THEN 0 ELSE 1)
                ELSE IF y >= top - 3 /\ x \in 2..5 THEN 1
                ELSE 0]]

\* The game Run reaches on that board with an I piece that was spawned, taken
\* three columns to the right (move), stood up (rotate), taken to column 9
\* and down the well to DropGap rows above the row it lands on; k2 is the
\* next piece.
wellGame(k2) ==
    LET g0 == spawnPiece([TetrisNewGame EXCEPT !.board = wellBoard], 0, k2)
    IN  IF g0.gameOver THEN g0
        ELSE [g0 EXCEPT !.currShape = rotated(g0.currShape),
                        !.pieceX    = BoardWidth - 1,
                        !.pieceY    = BoardHeight - 4 - DropGap]

\* Run up to its loop (NewGame, then spawnPiece), or a game in progress.
TetrisInit ==
    /\ \/ \E n \in {0, StartRounds} : \E k1 \in ShapeDraws, k2 \in NextDraws :
             tgame = inProgress(n, k1, k2)
       \/ \E k2 \in NextDraws : tgame = wellGame(k2)
    /\ cmds = 0
    /\ input = NoGame
    /\ heap = NoGame
    /\ last = [op |-> "new", ok |-> TRUE, n |-> 0]
    /\ sgame = NoGame
    /\ steps = 0
    /\ turns = 0

\* 'r' while the game is over.
TetrisRestart ==
    /\ tgame.gameOver
    /\ \E r1 \in ShapeDraws, r2 \in NextDraws : tgame' = tetrisReset(tgame, r1, r2)
    /\ cmds' = 0
    /\ last' = [op |-> "reset", ok |-> TRUE, n |-> 0]
    /\ UNCHANGED <<input, heap, svars>>

\* 'p': pause or continue.
TetrisPauseKey ==
    /\ ~tgame.gameOver
    /\ tgame' = [tgame EXCEPT !.paused = ~tgame.paused]
    /\ last' = [op |-> "key", ok |-> TRUE, n |-> 0]
    /\ UNCHANGED <<cmds, input, heap, svars>>

\* A command key is handled although the game is paused.
PlayingNoPauseCheck == ~tgame.gameOver /\ cmds < MaxCmds

\* A command key is handled: the game runs and the command budget is left.
Playing == ~tgame.gameOver /\ ~tgame.paused /\ cmds < MaxCmds

\* A command key while the game is over or paused: the handler returns to
\* the loop before the command keys are looked at.
TetrisKeyWhileStopped ==
    /\ tgame.gameOver \/ tgame.paused
    /\ last' = [op |-> "ignored", ok |-> FALSE, n |-> 0]
    /\ UNCHANGED <<tgame, cmds, input, heap, svars>>

\* Left arrow.
KeyLeft ==
    /\ Playing
    /\ LET m == move(tgame, -1, 0)
       IN  /\ tgame' = m.game
           /\ last' = [op |-> "move", ok |-> m.ok, n |-> 0]
    /\ cmds' = cmds + 1
    /\ UNCHANGED <<input, heap, svars>>

\* Right arrow.
KeyRight ==
    /\ Playing
    /\ LET m == move(tgame, 1, 0)
       IN  /\ tgame' = m.game
           /\ last' = [op |-> "move", ok |-> m.ok, n |-> 0]
    /\ cmds' = cmds + 1
    /\ UNCHANGED <<input, heap, svars>>

\* Up arrow.
KeyUp ==
    /\ Playing
    /\ LET m == rotate(tgame)
       IN  /\ tgame' = m.game
           /\ last' = [op |-> "rotate", ok |-> m.ok, n |-> 0]
    /\ cmds' = cmds + 1
    /\ UNCHANGED <<input, heap, svars>>

\* drop() called once, by the down arrow or by the timer.
DropOnce ==
    /\ \E r \in DropDraws(tgame) :
          LET d == drop(tgame, r[1], r[2])
          IN  /\ tgame' = d.game
              /\ last' = [op |-> "drop", ok |-> d.ok, n |-> d.n]
    /\ cmds' = cmds + 1
    /\ UNCHANGED <<input, heap, svars>>

\* Down arrow.
KeyDown == Playing /\ DropOnce

\* Space: the hard drop loop.
KeySpace ==
    /\ Playing
    /\ \E r1 \in (IF tgame.nextPiece = 0 THEN ShapeDraws ELSE {0}), r2 \in NextDraws :
          LET d == hardDrop(tgame, r1, r2)
          IN  /\ tgame' = d.game
              /\ last' = [op |-> "harddrop", ok |-> d.ok, n |-> d.n]
    /\ cmds' = cmds + 1
    /\ UNCHANGED <<input, heap, svars>>

\* The timed drop of the loop.
AutoDrop == Playing /\ DropOnce

TetrisNext ==
    \/ TetrisRestart
    \/ TetrisPauseKey
    \/ TetrisKeyWhileStopped
    \/ KeyLeft
    \/ KeyRight
    \/ KeyUp
    \/ KeyDown
    \/ KeySpace
    \/ AutoDrop

TetrisSpec == TetrisInit /\ [][TetrisNext]_vars

(***************************************************************************)
(* Both Run loops: one of the two games is played                          *)
(***************************************************************************)
RunInit == SnakeInit \/ TetrisInit

\* The game of the snake Run, or that of the tetris Run, exists.
SnakeStarted == sgame # NoGame
TetrisStarted == tgame # NoGame

RunNext ==
    \/ SnakeStarted /\ RestartAfterGameOver
    \/ SnakeStarted /\ PauseKey
    \/ SnakeStarted /\ DirectionKey
    \/ SnakeStarted /\ RestartKey
    \/ SnakeStarted /\ KeyWhileStopped
    \/ SnakeStarted /\ AutoMove
    \/ TetrisStarted /\ TetrisRestart
    \/ TetrisStarted /\ TetrisPauseKey
    \/ TetrisStarted /\ TetrisKeyWhileStopped
    \/ TetrisStarted /\ KeyLeft
    \/ TetrisStarted /\ KeyRight
    \/ TetrisStarted /\ KeyUp
    \/ TetrisStarted /\ KeyDown
    \/ TetrisStarted /\ KeySpace
    \/ TetrisStarted /\ AutoDrop

RunSpec == RunInit /\ [][RunNext]_vars

(***************************************************************************)
(* tetris: clearLines on its own                                           *)
(***************************************************************************)
\* The rows a board handed to clearLines is made of: empty, complete, or
\* with one empty cell at the left or at the right end. The rows with a hole
\* hold different values, so that their order shows.
RowKinds == 0..3

rowOfKind(k) ==
    [x \in 0..(BoardWidth - 1) |->
        CASE k = 0 -> 0
          [] k = 1 -> 1
          [] k = 2 -> (IF x = 0 THEN 0 ELSE 2)
          [] k = 3 -> (IF x = BoardWidth - 1 THEN 0 ELSE 3)]

\* The boards explored: rows WindowTop .. WindowTop + WindowRows - 1 take the
\* kinds w gives them, the rows above are empty, and the rows below are
\* empty or (filled) alternate between the two kinds with a hole.
windowBoard(w, filled) ==
    [y \in 0..(BoardHeight - 1) |->
        IF y < WindowTop THEN ZeroRow
        ELSE IF y < WindowTop + WindowRows THEN rowOfKind(w[y - WindowTop + 1])
        ELSE IF filled THEN rowOfKind(2 + (y % 2))
        ELSE ZeroRow]

\* The counters of the games explored: lines, and the score and level a
\* game with these lines can have (level = lines/10 + 1).
ClearCounters == {<<0, 0, 1>>, <<8, 1100, 1>>, <<25, 6200, 3>>}

\* A game as drop() hands it to clearLines, after lockPiece.
ClearInit ==
    /\ \E w \in [1..WindowRows -> RowKinds], filled \in BOOLEAN, c \in ClearCounters :
          /\ Cardinality({i \in 1..WindowRows : w[i] = 1}) <= Len(scoreTable) - 1
          /\ tgame = [spawnPiece(TetrisNewGame, 0, 0) EXCEPT
                          !.board = windowBoard(w, filled),
                          !.lines = c[1], !.score = c[2], !.level = c[3]]
    /\ cmds = 0
    /\ input = NoGame
    /\ heap = NoGame
    /\ last = [op |-> "new", ok |-> TRUE, n |-> 0]
    /\ sgame = NoGame
    /\ steps = 0
    /\ turns = 0

\* clearLines is called.
ClearLinesCall ==
    /\ cmds = 0
    /\ LET c == clearLines(tgame)
       IN  /\ tgame' = c.game
           /\ last' = [op |-> "clear", ok |-> TRUE, n |-> c.n]
    /\ input' = tgame
    /\ cmds' = 1
    /\ UNCHANGED <<heap, svars>>

ClearNext == ClearLinesCall

ClearSpec == ClearInit /\ [][ClearNext]_vars

(***************************************************************************)
(* Both engines: the methods called in any state, without the guards of    *)
(* the Run loops                                                           *)
(***************************************************************************)
\* g after rotate() was called t times.
RECURSIVE turned(_, _)
turned(g, t) == IF t = 0 THEN g ELSE turned(rotate(g).game, t - 1)

\* g with the piece at column x and row y.
placedAt(g, x, y) == [g EXCEPT !.pieceX = x, !.pieceY = y]

\* The games Run reaches from a game g whose piece was just spawned under
\* free rows, by up arrows (at most PlaceTurns), then left or right arrows
\* to a column x where the piece fits, then down arrows to a row y that the
\* piece reaches without colliding: row 0, or a row at most DropGap rows
\* above the one it lands on.
Placements(g) ==
    IF g.gameOver THEN {g}
    ELSE { placedAt(turned(g, p[1]), p[2], p[3]) :
             p \in { q \in (0..PlaceTurns) \X (0..(BoardWidth - 1)) \X (0..(BoardHeight - 1)) :
                       LET h == turned(g, q[1])
                       IN  /\ \A y1 \in 0..q[3] : ~collides(placedAt(h, q[2], y1))
                           /\ \/ q[3] = 0
                              \/ \E y2 \in (q[3] + 1)..(q[3] + 1 + DropGap) :
                                    collides(placedAt(h, q[2], y2)) } }

\* A snake game after NewGame and spawnFood, or a tetris game in progress.
EngineInit ==
    /\ \/ /\ \E c \in FoodDraws(SnakeNewGame) : sgame = spawnFood(SnakeNewGame, c)
          /\ tgame = NoGame
          /\ last = [op |-> "new", ok |-> TRUE, ate |-> FALSE]
       \/ /\ \E n \in {0, StartRounds} : \E k1 \in ShapeDraws, k2 \in NextDraws :
                tgame \in Placements(inProgress(n, k1, k2))
          /\ sgame = NoGame
          /\ last = [op |-> "new", ok |-> TRUE, n |-> 0]
    /\ cmds = 0
    /\ steps = 0
    /\ turns = 0
    /\ input = NoGame
    /\ heap = NoGame

\* A method can be called on the game: fewer than MaxCalls were since the
\* last reset.
SnakeCallable == sgame # NoGame /\ cmds < MaxCalls
TetrisCallable == tgame # NoGame /\ cmds < MaxCalls

\* snake: a direction is requested.
SnakeDirectionCall ==
    /\ SnakeCallable
    /\ \E d \in Direction : sgame' = requestDirection(sgame, d)
    /\ last' = [op |-> "key", ok |-> TRUE, ate |-> FALSE]
    /\ cmds' = cmds + 1
    /\ UNCHANGED <<steps, turns, tgame, input, heap>>

\* snake: the pause flag is toggled.
SnakePauseCall ==
    /\ SnakeCallable
    /\ sgame' = [sgame EXCEPT !.paused = ~sgame.paused]
    /\ last' = [op |-> "key", ok |-> TRUE, ate |-> FALSE]
    /\ cmds' = cmds + 1
    /\ UNCHANGED <<steps, turns, tgame, input, heap>>

\* snake: move() is called.
SnakeMoveCall ==
    /\ SnakeCallable
    /\ \E r \in MoveDraws(sgame) :
          LET m == snakeMove(sgame, r)
          IN  /\ sgame' = m.game
              /\ last' = [op |-> "move", ok |-> m.ok, ate |-> m.ate]
    /\ cmds' = cmds + 1
    /\ steps' = steps + 1
    /\ turns' = IF sgame.nextDir # sgame.direction THEN turns + 1 ELSE turns
    /\ UNCHANGED <<tgame, input, heap>>

\* snake: reset() is called; last.twice tells a reset() that follows another.
SnakeResetCall ==
    /\ sgame # NoGame
    /\ \E r \in FoodDraws(snakeResetFields(sgame)) : sgame' = snakeReset(sgame, r)
    /\ last' = [op |-> "reset", ok |-> TRUE, ate |-> FALSE, twice |-> last.op = "reset"]
    /\ cmds' = 0
    /\ steps' = 0
    /\ turns' = 0
    /\ UNCHANGED <<tgame, input, heap>>

\* tetris: move(dx, dy) is called with the offsets Run uses; last.dx and
\* last.dy tell them.
TetrisMoveCall ==
    /\ TetrisCallable
    /\ \E d \in {<<-1, 0>>, <<1, 0>>, <<0, 1>>} :
          LET m == move(tgame, d[1], d[2])
          IN  /\ tgame' = m.game
              /\ last' = [op |-> "move", ok |-> m.ok, n |-> 0,
                          dx |-> d[1], dy |-> d[2]]
    /\ cmds' = cmds + 1
    /\ UNCHANGED <<input, heap, svars>>

\* tetris: rotate() is called.
TetrisRotateCall ==
    /\ TetrisCallable
    /\ LET m == rotate(tgame)
       IN  /\ tgame' = m.game
           /\ last' = [op |-> "rotate", ok |-> m.ok, n |-> 0]
    /\ cmds' = cmds + 1
    /\ UNCHANGED <<input, heap, svars>>

\* tetris: drop() is called.
TetrisDropCall ==
    /\ TetrisCallable
    /\ \E r \in DropDraws(tgame) :
          LET d == drop(tgame, r[1], r[2])
          IN  /\ tgame' = d.game
              /\ last' = [op |-> "drop", ok |-> d.ok, n |-> d.n]
    /\ cmds' = cmds + 1
    /\ UNCHANGED <<input, heap, svars>>

\* tetris: the pause flag is toggled.
TetrisPauseCall ==
    /\ TetrisCallable
    /\ tgame' = [tgame EXCEPT !.paused = ~tgame.paused]
    /\ last' = [op |-> "key", ok |-> TRUE, n |-> 0]
    /\ cmds' = cmds + 1
    /\ UNCHANGED <<input, heap, svars>>

\* tetris: reset() is called; last.twice tells a reset() that follows another.
TetrisResetCall ==
    /\ tgame # NoGame
    /\ \E r1 \in ShapeDraws, r2 \in NextDraws : tgame' = tetrisReset(tgame, r1, r2)
    /\ last' = [op |-> "reset", ok |-> TRUE, n |-> 0, twice |-> last.op = "reset"]
    /\ cmds' = 0
    /\ UNCHANGED <<input, heap, svars>>

EngineNext ==
    \/ SnakeDirectionCall
    \/ SnakePauseCall
    \/ SnakeMoveCall
    \/ SnakeResetCall
    \/ TetrisMoveCall
    \/ TetrisRotateCall
    \/ TetrisDropCall
    \/ TetrisPauseCall
    \/ TetrisResetCall

EngineSpec == EngineInit /\ [][EngineNext]_vars

(***************************************************************************)
(* tetris: the hard drop loop of Run and the scan of clearLines, one       *)
(* iteration per step.  last.op tells where the program is: "harddrop" in  *)
(* the loop of Run, before a call of drop(); "clearLines" in the scan of   *)
(* the clearLines that drop() called after lockPiece; "done" after the     *)
(* drop() that returned false.  last.calls counts the calls of drop(),     *)
(* last.y is the row the scan examines next, last.n the rows it cleared    *)
(* and last.iters its iterations.                                          *)
(***************************************************************************)
\* One iteration of the scan on a complete row that leaves the rows as they
\* are.
scanIterationNoShift(board, y, n) ==
    IF complete(board[y]) THEN [board |-> board, y |-> y, n |-> n + 1]
    ELSE [board |-> board, y |-> y - 1, n |-> n]

\* One iteration of the scan of clearLines at row y with n rows cleared so
\* far: a complete row is removed and y stays (y++ undoes the y-- of the
\* loop), any other row is passed.
scanIteration(board, y, n) ==
    IF complete(board[y]) THEN [board |-> shiftDown(board, y), y |-> y, n |-> n + 1]
    ELSE [board |-> board, y |-> y - 1, n |-> n]

\* The space key was pressed on a game that runs, or drop() has locked the
\* piece and calls clearLines.
LoopInit ==
    /\ \/ /\ \/ \E n \in {0, StartRounds} : \E k1 \in ShapeDraws, k2 \in NextDraws :
                    tgame \in Placements(inProgress(n, k1, k2))
             \/ \E k2 \in NextDraws : tgame = wellGame(k2)
          /\ ~tgame.gameOver
          /\ last = [op |-> "harddrop", ok |-> TRUE, n |-> 0,
                     calls |-> 0, y |-> BoardHeight - 1, iters |-> 0]
       \/ /\ \E w \in [1..WindowRows -> RowKinds], filled \in BOOLEAN :
                /\ Cardinality({i \in 1..WindowRows : w[i] = 1}) <= Len(scoreTable) - 1
                /\ tgame = [spawnPiece(TetrisNewGame, 0, 0) EXCEPT
                                !.board = windowBoard(w, filled)]
          /\ last = [op |-> "clearLines", ok |-> FALSE, n |-> 0,
                     calls |-> 1, y |-> BoardHeight - 1, iters |-> 0]
    /\ cmds = 0
    /\ input = NoGame
    /\ heap = NoGame
    /\ sgame = NoGame
    /\ steps = 0
    /\ turns = 0

\* drop() up to its call of clearLines: the piece moved down one row (ok),
\* or, move(0, 1) having left it where it is, the piece locked there.
dropUntilLocked(g) ==
    IF move(g, 0, 1).ok THEN [game |-> move(g, 0, 1).game, ok |-> TRUE]
                        ELSE [game |-> lockPiece(g), ok |-> FALSE]

\* The loop of Run calls drop(): the piece goes down one row and the loop
\* goes on, or the piece is locked and clearLines starts its scan.
HardDropIteration ==
    /\ last.op = "harddrop"
    /\ last.calls <= BoardHeight
    /\ tgame' = dropUntilLocked(tgame).game
    /\ last' = [last EXCEPT
                   !.op = IF dropUntilLocked(tgame).ok THEN "harddrop" ELSE "clearLines",
                   !.ok = dropUntilLocked(tgame).ok,
                   !.calls = last.calls + 1]
    /\ UNCHANGED <<cmds, input, heap, svars>>

\* One iteration of the scan.
ScanIteration ==
    /\ last.op = "clearLines"
    /\ last.y >= 0
    /\ last.iters <= 2 * BoardHeight
    /\ LET s == scanIteration(tgame.board, last.y, last.n)
       IN  /\ tgame' = [tgame EXCEPT !.board = s.board]
           /\ last' = [last EXCEPT !.y = s.y, !.n = s.n, !.iters = last.iters + 1]
    /\ UNCHANGED <<cmds, input, heap, svars>>

\* The scan is over: clearLines updates the counters, drop() calls
\* spawnPiece and returns false, and the loop of Run ends.
ScanEnd ==
    /\ last.op = "clearLines"
    /\ last.y < 0
    /\ \E r2 \in NextDraws :
          tgame' = spawnPiece(updateScore(tgame, last.n), 0, r2)
    /\ last' = [last EXCEPT !.op = "done"]
    /\ UNCHANGED <<cmds, input, heap, svars>>

LoopNext ==
    \/ HardDropIteration
    \/ ScanIteration
    \/ ScanEnd

\* The loops run in the one goroutine of Run, which is never suspended for
\* good.
LoopSpec == LoopInit /\ [][LoopNext]_vars /\ WF_vars(LoopNext)

(***************************************************************************)
(* tetris: the shape arrays in memory.  Shapes is a package variable, and  *)
(* a Go slice refers to its array: spawnPiece makes currShape refer to the *)
(* array of the table entry, rotate makes it refer to an array of its own. *)
(* heap.arr maps the arrays to their contents: arrays 1 .. NumShapes are   *)
(* the entries of the table, the two after them are those rotate makes     *)
(* (the one before the last is garbage once currShape refers to a new      *)
(* one).  heap.curr is the array currShape refers to, and tgame.currShape  *)
(* is what the engine reads through it.                                    *)
(***************************************************************************)
\* The contents of an array that is not allocated.
NoArray == <<>>

\* The arrays of memory.
Arrays == 1..(NumShapes + 2)

\* arr with every array outside the table dropped, except for keep.
onlyTableAnd(arr, keep) ==
    [a \in Arrays |-> IF a <= NumShapes \/ a = keep THEN arr[a] ELSE NoArray]

\* Memory after the package is initialised.
StartArrays == [a \in Arrays |-> IF a <= NumShapes THEN Shapes[a] ELSE NoArray]

\* spawnPiece on memory h: currShape is made to refer to the table entry
\* and the collision test reads the shape through it.
spawnPieceAt(h, g, r1, r2) ==
    LET piece == IF g.nextPiece = 0 THEN r1 ELSE g.nextPiece - 1
        shape == h.arr[piece + 1]
        g1    == [g EXCEPT !.currPiece = piece,
                           !.currShape = shape,
                           !.pieceX    = BoardWidth \div 2 - Len(shape[1]) \div 2,
                           !.pieceY    = 0,
                           !.nextPiece = r2 + 1]
    IN  [game |-> IF collides(g1) THEN [g1 EXCEPT !.gameOver = TRUE] ELSE g1,
         heap |-> [arr |-> onlyTableAnd(h.arr, 0), curr |-> piece + 1]]

\* rotate that writes the rotated cells into the array currShape refers to.
rotateAtInPlace(h, g) ==
    LET rot == rotated(h.arr[h.curr])
        g1  == [g EXCEPT !.currShape = rot]
    IN  IF collides(g1) THEN [game |-> g, heap |-> h, ok |-> FALSE]
        ELSE [game |-> g1, heap |-> [h EXCEPT !.arr[h.curr] = rot], ok |-> TRUE]

\* rotate on memory h: the rotated cells are written into a new array (make)
\* and currShape refers to it unless the piece collides; the array read is
\* left as it is.
rotateAt(h, g) ==
    LET new == IF h.curr = NumShapes + 1 THEN NumShapes + 2 ELSE NumShapes + 1
        rot == rotated(h.arr[h.curr])
        g1  == [g EXCEPT !.currShape = rot]
    IN  IF collides(g1) THEN [game |-> g, heap |-> h, ok |-> FALSE]
        ELSE [game |-> g1,
              heap |-> [arr  |-> onlyTableAnd([h.arr EXCEPT ![new] = rot], new),
                        curr |-> new],
              ok |-> TRUE]

\* drop on memory h: move, lockPiece and clearLines write no shape array.
dropAt(h, g, r1, r2) ==
    LET m == move(g, 0, 1)
    IN  IF m.ok THEN [game |-> m.game, heap |-> h, ok |-> TRUE, n |-> 0]
        ELSE LET c == clearLines(lockPiece(m.game))
                 s == spawnPieceAt(h, c.game, r1, r2)
             IN  [game |-> s.game, heap |-> s.heap, ok |-> FALSE, n |-> c.n]

\* reset on memory h.
tetrisResetAt(h, g, r1, r2) ==
    spawnPieceAt(h, [g EXCEPT !.board     = ZeroBoard,
                              !.score     = 0,
                              !.lines     = 0,
                              !.level     = 1,
                              !.nextPiece = 0,
                              !.paused    = FALSE,
                              !.gameOver  = FALSE], r1, r2)

\* A tetris game in progress: currShape refers to the table entry when the
\* piece has its canonical shape, to an array of its own otherwise.
ShapeInit ==
    /\ \E n \in {0, StartRounds} : \E k1 \in ShapeDraws, k2 \in NextDraws :
          tgame \in Placements(inProgress(n, k1, k2))
    /\ heap = IF tgame.currShape = Shapes[tgame.currPiece + 1]
              THEN [arr |-> StartArrays, curr |-> tgame.currPiece + 1]
              ELSE [arr  |-> [StartArrays EXCEPT ![NumShapes + 1] = tgame.currShape],
                    curr |-> NumShapes + 1]
    /\ last = [op |-> "new", ok |-> TRUE, n |-> 0, from |-> 0]
    /\ cmds = 0
    /\ input = NoGame
    /\ sgame = NoGame
    /\ steps = 0
    /\ turns = 0

\* rotate() is called; last.from is the array it read.
ShapeRotateCall ==
    /\ cmds < MaxCalls
    /\ LET r == rotateAt(heap, tgame)
       IN  /\ tgame' = r.game
           /\ heap' = r.heap
           /\ last' = [op |-> "rotate", ok |-> r.ok, n |-> 0, from |-> heap.curr]
    /\ cmds' = cmds + 1
    /\ UNCHANGED <<input, svars>>

\* move(dx, dy) is called with the offsets Run uses.
ShapeMoveCall ==
    /\ cmds < MaxCalls
    /\ \E d \in {<<-1, 0>>, <<1, 0>>, <<0, 1>>} :
          LET m == move(tgame, d[1], d[2])
          IN  /\ tgame' = m.game
              /\ last' = [op |-> "move", ok |-> m.ok, n |-> 0, from |-> heap.curr]
    /\ cmds' = cmds + 1
    /\ UNCHANGED <<input, heap, svars>>

\* drop() is called.
ShapeDropCall ==
    /\ cmds < MaxCalls
    /\ \E r \in DropDraws(tgame) :
          LET d == dropAt(heap, tgame, r[1], r[2])
          IN  /\ tgame' = d.game
              /\ heap' = d.heap
              /\ last' = [op |-> "drop", ok |-> d.ok, n |-> d.n, from |-> heap.curr]
    /\ cmds' = cmds + 1
    /\ UNCHANGED <<input, svars>>

\* reset() is called.
ShapeResetCall ==
    /\ \E r1 \in ShapeDraws, r2 \in NextDraws :
          LET s == tetrisResetAt(heap, tgame, r1, r2)
          IN  /\ tgame' = s.game
              /\ heap' = s.heap
    /\ last' = [op |-> "reset", ok |-> TRUE, n |-> 0, from |-> heap.curr]
    /\ cmds' = 0
    /\ UNCHANGED <<input, svars>>

ShapeNext ==
    \/ ShapeRotateCall
    \/ ShapeMoveCall
    \/ ShapeDropCall
    \/ ShapeResetCall

ShapeSpec == ShapeInit /\ [][ShapeNext]_vars

(***************************************************************************)
(* snake: properties                                                       *)
(***************************************************************************)
\* The step is a move() call.
IsMoveStep == last'.op = "move" /\ steps' = steps + 1

OnSnake(g, p) == \E i \in 1..Len(g.snake) : g.snake[i] = p

NoDuplicateCells(g) ==
    \A i, j \in 1..Len(g.snake) : i # j => g.snake[i] # g.snake[j]

\* The new head of a move() on g is outside the board or on a body cell
\* other than the tail.
HeadBlocked(g) ==
    LET h == Advance(g.snake[1], g.nextDir)
    IN  \/ h.x < 0 \/ h.x >= SnakeBoardWidth
        \/ h.y < 0 \/ h.y >= SnakeBoardHeight
        \/ \E i \in 1..(Len(g.snake) - 1) : g.snake[i] = h

\* C1: in every reachable state the food cell is not a cell of the snake.
C1_FoodNeverOnSnake == ~OnSnake(sgame, sgame.food)

\* C2: in every reachable state where gameOver is false the body has no
\* duplicate cells and at least 3 cells.
C2_BodyDistinctWhileAlive ==
    ~sgame.gameOver => (NoDuplicateCells(sgame) /\ Len(sgame.snake) >= 3)

\* C3: whenever move() copies nextDir into direction, nextDir is not the
\* opposite of direction, and the new head is not the second body cell.
C3_NoNeckReversal ==
    [][IsMoveStep =>
          /\ sgame.nextDir # Opposite(sgame.direction)
          /\ Advance(sgame.snake[1], sgame.nextDir) # sgame.snake[2]]_vars

\* C3 witness: a move has applied a requested turn after an earlier turn.
C3_Witness ==
    /\ last.op = "move" /\ last.ok
    /\ turns >= 2
    /\ sgame.direction = "Down"

\* C4: after every move() that returns true, len(snake) = length.
C4_LengthAfterMove ==
    (last.op = "move" /\ last.ok) => Len(sgame.snake) = sgame.length

\* C4 witness: a move that ate (length grown to 5) has returned true.
C4_Witness ==
    /\ last.op = "move" /\ last.ok /\ last.ate
    /\ sgame.length = 5
    /\ Len(sgame.snake) = 5

\* C10: a move() whose new head is outside the board or on a body cell other
\* than the tail sets gameOver, returns false, and leaves body, food, score
\* and length as they were.
C10_CollisionEndsGame ==
    [][(IsMoveStep /\ HeadBlocked(sgame)) =>
          /\ sgame'.gameOver
          /\ ~last'.ok
          /\ sgame'.snake = sgame.snake
          /\ sgame'.food = sgame.food
          /\ sgame'.score = sgame.score
          /\ sgame'.length = sgame.length]_vars

\* C10 witness: a move has ended the game by running into the snake's own
\* body, away from every wall.
C10_Witness ==
    /\ last.op = "move" /\ ~last.ok /\ sgame.gameOver
    /\ OnSnake(sgame, Advance(sgame.snake[1], sgame.direction))

(***************************************************************************)
(* tetris: properties                                                      *)
(***************************************************************************)
\* The step is a rotate() call.
IsRotateStep == last'.op = "rotate" /\ cmds' = cmds + 1

\* The board cells the filled cells of shape take with the piece of g.
CellsAt(g, shape) ==
    {<<g.pieceX + c[1], g.pieceY + c[2]>> : c \in FilledCells(shape)}

\* Some cell of the rotated form of g's piece, at the same anchor, is outside
\* the side or bottom edges or on a non-zero board cell.
RotatedFormCollides(g) ==
    \E c \in CellsAt(g, rotated(g.currShape)) :
        \/ c[1] < 0 \/ c[1] >= BoardWidth
        \/ c[2] >= BoardHeight
        \/ (c[2] >= 0 /\ g.board[c[2]][c[1]] # 0)

\* C5: in every state with gameOver false, getGhostPosition returns pieceX
\* and the row at which the piece is locked when drop() is called until it
\* returns false.
C5_GhostIsLandingRow ==
    (tgame # NoGame /\ ~tgame.gameOver) =>
        getGhostPosition(tgame) = hardDrop(tgame, 0, 0).at

\* C5 witness: a running game whose piece, after a move, is above its
\* landing row and lands on the stack, not on the floor.
C5_Witness ==
    /\ tgame # NoGame /\ ~tgame.gameOver
    /\ last.op = "move" /\ last.ok
    /\ getGhostPosition(tgame)[2] > tgame.pieceY
    /\ getGhostPosition(tgame)[2] + Len(tgame.currShape) < BoardHeight
    /\ hardDrop(tgame, 0, 0).at = getGhostPosition(tgame)

\* C6: a rotate() whose rotated form collides leaves the shape matrix,
\* pieceX, pieceY, board, score, lines, level and gameOver as they were.
C6_RotateRollback ==
    [][(IsRotateStep /\ RotatedFormCollides(tgame)) =>
          /\ tgame'.currShape = tgame.currShape
          /\ tgame'.pieceX = tgame.pieceX
          /\ tgame'.pieceY = tgame.pieceY
          /\ tgame'.board = tgame.board
          /\ tgame'.score = tgame.score
          /\ tgame'.lines = tgame.lines
          /\ tgame'.level = tgame.level
          /\ tgame'.gameOver = tgame.gameOver]_vars

\* C6 witness: a rotate() was rolled back because the rotated form, inside
\* the board, overlaps the stack.
C6_Witness ==
    /\ tgame # NoGame /\ last.op = "rotate" /\ ~last.ok
    /\ ~tgame.gameOver
    /\ \A c \in CellsAt(tgame, rotated(tgame.currShape)) :
          c[1] >= 0 /\ c[1] < BoardWidth /\ c[2] < BoardHeight
    /\ RotatedFormCollides(tgame)

\* The number of complete rows of the board clearLines was called on.
RowsRemoved == Cardinality({y \in 0..(BoardHeight - 1) :
                               \A x \in 0..(BoardWidth - 1) : input.board[y][x] # 0})

\* C7: a clearLines that removes k rows, k in 1..4, adds {100,300,500,800}[k]
\* times the level before the call to score, adds k to lines and sets level
\* to lines/10 + 1; one that removes no row leaves the three unchanged.
C7_ClearScoring ==
    last.op = "clear" =>
        /\ RowsRemoved \in 1..4 =>
              /\ tgame.score = input.score + <<100, 300, 500, 800>>[RowsRemoved] * input.level
              /\ tgame.lines = input.lines + RowsRemoved
              /\ tgame.level = tgame.lines \div 10 + 1
        /\ RowsRemoved = 0 =>
              /\ tgame.score = input.score
              /\ tgame.lines = input.lines
              /\ tgame.level = input.level

\* C7 witness: two rows were removed at level 1 and took lines from 8 to
\* 10: the score grew by 300 times the old level, and level became 2.
C7_Witness ==
    /\ last.op = "clear" /\ RowsRemoved = 2
    /\ input.lines = 8 /\ input.level = 1
    /\ tgame.score = input.score + 300
    /\ tgame.lines = 10
    /\ tgame.level = 2

\* The incomplete rows of the board clearLines was called on, top to bottom.
IncompleteRows ==
    SelectSeq([i \in 1..BoardHeight |-> input.board[i - 1]],
              LAMBDA row : \E x \in 0..(BoardWidth - 1) : row[x] = 0)

\* C8: after clearLines the board is the incomplete rows of the board before,
\* in their order, at the bottom, under as many empty rows as complete rows
\* were removed; no complete row remains.
C8_ClearCompaction ==
    last.op = "clear" =>
        LET k == BoardHeight - Len(IncompleteRows)
        IN  /\ \A y \in 0..(BoardHeight - 1) :
                  tgame.board[y] = IF y < k THEN ZeroRow ELSE IncompleteRows[y - k + 1]
            /\ \A y \in 0..(BoardHeight - 1) :
                  \E x \in 0..(BoardWidth - 1) : tgame.board[y][x] = 0

\* C8 witness: rows 5 and 7 were the complete rows, with occupied incomplete
\* rows between, above and below them; two rows were removed.
C8_Witness ==
    /\ last.op = "clear" /\ last.n = 2
    /\ \A y \in 0..(BoardHeight - 1) :
          (\A x \in 0..(BoardWidth - 1) : input.board[y][x] # 0) <=> y \in {5, 7}
    /\ \A y \in {4, 6, 8} : input.board[y] # ZeroRow
    /\ tgame.board[6] = input.board[4]
    /\ tgame.board[7] = input.board[6]

(***************************************************************************)
(* Both engines: properties                                                *)
(***************************************************************************)
\* The step is a reset() that follows a reset().
IsSecondReset == last.op = "reset" /\ last'.op = "reset" /\ last'.twice

\* The snake games before and after the step are equal except in food.
SnakeSameButFood ==
    sgame # NoGame => [sgame' EXCEPT !.food = sgame.food] = sgame

\* The tetris games before and after the step are equal except in the
\* current piece (its index, shape and position).
TetrisSameButPiece ==
    tgame # NoGame =>
        [tgame' EXCEPT !.currPiece = tgame.currPiece,
                       !.currShape = tgame.currShape,
                       !.pieceX    = tgame.pieceX,
                       !.pieceY    = tgame.pieceY] = tgame

\* The tetris games before and after the step are equal except in the
\* current piece and in nextPiece.
TetrisSameButPieces ==
    tgame # NoGame =>
        [tgame' EXCEPT !.currPiece = tgame.currPiece,
                       !.currShape = tgame.currShape,
                       !.pieceX    = tgame.pieceX,
                       !.pieceY    = tgame.pieceY,
                       !.nextPiece = tgame.nextPiece] = tgame

\* C9 as stated: the states after two reset() calls in a row are equal in
\* every field except food (snake) and the current piece (tetris).
C9_ResetTwiceSameButPiece ==
    [][IsSecondReset => (SnakeSameButFood /\ TetrisSameButPiece)]_vars

\* C9 amended: the states after two reset() calls in a row are equal in
\* every field except food (snake) and the current piece and nextPiece
\* (tetris).
C9_ResetTwiceSameButPieces ==
    [][IsSecondReset => (SnakeSameButFood /\ TetrisSameButPieces)]_vars

\* C9 witness: reset() was called on a tetris game that reset() had just
\* left, and drew another next piece than the game held.
C9_Witness ==
    /\ tgame # NoGame
    /\ last.op = "reset" /\ last.twice
    /\ tgame.nextPiece = DrawLimit
    /\ tgame.score = 0 /\ tgame.board = ZeroBoard /\ ~tgame.gameOver

(***************************************************************************)
(* tetris: the methods called on a game that is over                       *)
(***************************************************************************)
\* The step is a move(), rotate() or drop() call on a tetris game.
IsTetrisCommandStep ==
    /\ tgame # NoGame
    /\ last'.op \in {"move", "rotate", "drop"}
    /\ cmds' = cmds + 1

\* C11: while gameOver is true a move(), rotate() or drop() call leaves the
\* board, the piece's shape and position, nextPiece, score, lines and level
\* unchanged, and move() and drop() return false.
C11_NoOpWhenGameOver ==
    [][(IsTetrisCommandStep /\ tgame.gameOver) =>
          /\ tgame'.board = tgame.board
          /\ tgame'.currShape = tgame.currShape
          /\ tgame'.pieceX = tgame.pieceX
          /\ tgame'.pieceY = tgame.pieceY
          /\ tgame'.nextPiece = tgame.nextPiece
          /\ tgame'.score = tgame.score
          /\ tgame'.lines = tgame.lines
          /\ tgame'.level = tgame.level
          /\ (last'.op \in {"move", "drop"} => ~last'.ok)]_vars

(***************************************************************************)
(* snake: game over and pause                                              *)
(***************************************************************************)
\* C12: from a state with gameOver true, every step other than a reset()
\* leaves gameOver true and the body, food, score, length, direction and
\* nextDir as they were; and a move() called in such a state returns false
\* and changes nothing.
C12_GameOverUntilReset ==
    [][sgame.gameOver =>
          /\ \/ last'.op = "reset"
             \/ /\ sgame'.gameOver
                /\ sgame'.snake = sgame.snake
                /\ sgame'.food = sgame.food
                /\ sgame'.score = sgame.score
                /\ sgame'.length = sgame.length
                /\ sgame'.direction = sgame.direction
                /\ sgame'.nextDir = sgame.nextDir
          /\ ~snakeMove(sgame, 0).ok
          /\ snakeMove(sgame, 0).game = sgame]_vars

\* C12 witness: an arrow key other than the direction of the fatal move
\* arrived after the game ended against a wall, and nextDir kept its value.
C12_Witness ==
    /\ sgame.gameOver
    /\ last.op = "ignored"
    /\ last.dir # sgame.direction
    /\ last.dir # Opposite(sgame.direction)
    /\ sgame.nextDir = sgame.direction
    /\ ~OnSnake(sgame, Advance(sgame.snake[1], sgame.direction))

\* C13: an arrow key that does not reverse direction, pressed while paused is
\* true and gameOver false, is recorded in nextDir.
C13_PausedRequestRecorded ==
    [][(/\ sgame.paused /\ ~sgame.gameOver
        /\ last'.op = "ignored"
        /\ last'.dir # Opposite(sgame.direction)) =>
          sgame'.nextDir = last'.dir]_vars

(***************************************************************************)
(* Both engines: the tick periods                                          *)
(***************************************************************************)
SpeedNormal == 150
SpeedFast == 80

\* getSpeed without the lower limit.
getSpeedNoFloor(g) == SpeedNormal - g.score \div 5

\* getSpeed: the period of the timed move, in milliseconds.
getSpeed(g) ==
    LET speed == SpeedNormal - g.score \div 5
    IN  IF speed < SpeedFast THEN SpeedFast ELSE speed

\* getDropInterval without the lower limit.
getDropIntervalNoFloor(g) == 500 \div g.level

\* getDropInterval: the period of the timed drop, in milliseconds.
getDropInterval(g) ==
    LET interval == 500 \div g.level
    IN  IF interval < 50 THEN 50 ELSE interval

\* The scores explored: the multiples of 10 up to 10 * MaxFoods, the score of
\* a game in which MaxFoods foods were eaten.
Scores == {10 * k : k \in 0..MaxFoods}

\* The levels explored.
Levels == 1..MaxLevel

\* The inputs of the two functions: a snake game with one of the scores
\* (getSpeed reads score alone), or a tetris game at one of the levels
\* (getDropInterval reads level alone), with the lines that give this level.
TimingInit ==
    /\ \/ /\ \E s \in Scores :
                sgame = [spawnFood(SnakeNewGame, Point(0, 0)) EXCEPT !.score = s]
          /\ tgame = NoGame
       \/ /\ \E l \in Levels :
                tgame = [spawnPiece(TetrisNewGame, 0, 0) EXCEPT
                             !.level = l, !.lines = 10 * (l - 1)]
          /\ sgame = NoGame
    /\ cmds = 0
    /\ steps = 0
    /\ turns = 0
    /\ input = NoGame
    /\ heap = NoGame
    /\ last = [op |-> "new", ok |-> TRUE, n |-> 0]

\* Run asks the snake game for the period of the timed move.
GetSpeedCall ==
    /\ sgame # NoGame
    /\ cmds = 0
    /\ last' = [op |-> "speed", ok |-> TRUE, n |-> getSpeed(sgame)]
    /\ cmds' = 1
    /\ UNCHANGED <<sgame, steps, turns, tgame, input, heap>>

\* Run asks the tetris game for the period of the timed drop.
GetDropIntervalCall ==
    /\ tgame # NoGame
    /\ cmds = 0
    /\ last' = [op |-> "interval", ok |-> TRUE, n |-> getDropInterval(tgame)]
    /\ cmds' = 1
    /\ UNCHANGED <<sgame, steps, turns, tgame, input, heap>>

TimingNext ==
    \/ GetSpeedCall
    \/ GetDropIntervalCall

TimingSpec == TimingInit /\ [][TimingNext]_vars

\* A snake game with score s, as getSpeed reads it.
WithScore(s) == [score |-> s]

\* C14: for every score that is a multiple of 10, getSpeed returned
\* max(80, 150 - score/5); it is not above what it returns for any smaller
\* score, never below 80, and 80 at score 1000.
C14_SpeedFormula ==
    (sgame # NoGame /\ last.op = "speed") =>
        LET want == 150 - sgame.score \div 5
        IN  /\ last.n = IF want > 80 THEN want ELSE 80
            /\ last.n >= 80
            /\ \A s \in Scores : s <= sgame.score => getSpeed(WithScore(s)) >= last.n
            /\ sgame.score = 1000 => last.n = 80

\* C14 witness: getSpeed was called at score 1000 and returned 80.
C14_Witness ==
    /\ sgame # NoGame /\ last.op = "speed"
    /\ sgame.score = 1000
    /\ last.n = 80

\* A tetris game at level l, as getDropInterval reads it.
AtLevel(l) == [level |-> l]

\* C15: for every level >= 1, getDropInterval returned max(50, 500/level); it
\* is below what it returns for the level before whenever that is above 50,
\* never below 50, 50 from level 10 on, and 50 at level 20.
C15_DropIntervalFormula ==
    (tgame # NoGame /\ last.op = "interval") =>
        LET want == 500 \div tgame.level
        IN  /\ last.n = IF want > 50 THEN want ELSE 50
            /\ last.n >= 50
            /\ \A l \in Levels :
                  (l + 1 = tgame.level /\ getDropInterval(AtLevel(l)) > 50)
                      => last.n < getDropInterval(AtLevel(l))
            /\ tgame.level >= 10 => last.n = 50
            /\ tgame.level = 20 => last.n = 50

\* C15 witness: getDropInterval was called at level 20 and returned 50.
C15_Witness ==
    /\ tgame # NoGame /\ last.op = "interval"
    /\ tgame.level = 20
    /\ last.n = 50

\* The step is a drop() or a hard drop of Run that ended with spawnPiece.
IsSpawnStep ==
    /\ cmds' = cmds + 1
    /\ last'.op \in {"drop", "harddrop"}
    /\ ~last'.ok

\* Some filled cell of g's piece is outside the side or bottom edges or on a
\* non-zero board cell.
PieceBlocked(g) ==
    \E c \in CellsAt(g, g.currShape) :
        \/ c[1] < 0 \/ c[1] >= BoardWidth
        \/ c[2] >= BoardHeight
        \/ (c[2] >= 0 /\ g.board[c[2]][c[1]] # 0)

\* C16: a spawnPiece made with nextPiece set makes the announced shape the
\* current piece, unrotated, at pieceY = 0 and
\* pieceX = BoardWidth / 2 - shapeWidth / 2, and leaves gameOver true exactly
\* when the piece placed there collides; no step other than one that ends
\* with spawnPiece turns gameOver from false to true.
C16_SpawnFromNext ==
    [][ /\ (IsSpawnStep /\ tgame.nextPiece # 0) =>
            LET shape == Shapes[tgame.nextPiece]
            IN  /\ tgame'.currPiece = tgame.nextPiece - 1
                /\ tgame'.currShape = shape
                /\ tgame'.pieceY = 0
                /\ tgame'.pieceX = BoardWidth \div 2 - Len(shape[1]) \div 2
                /\ tgame'.gameOver <=> PieceBlocked(tgame')
        /\ (tgame'.gameOver /\ ~tgame.gameOver) => IsSpawnStep
      ]_vars

\* A hard drop locked a piece in the two top rows and the O piece announced
\* before it was spawned onto it: the game is over.
C16_Witness ==
    /\ last.op = "harddrop"
    /\ tgame.gameOver
    /\ tgame.currPiece = 1
    /\ tgame.pieceX = 4
    /\ tgame.pieceY = 0
    /\ tgame.board[1][4] # 0

\* The step is a call of the tetris move(dx, dy).
IsTetrisMoveStep == tgame # NoGame /\ last'.op = "move" /\ cmds' = cmds + 1

\* C17: a move(dx, dy) whose target position collides returns false and
\* leaves the whole game as it was (pieceX, pieceY, the shape, the board,
\* score, lines, level and gameOver included); one whose target is free
\* returns true and changes pieceX by dx and pieceY by dy and nothing else.
C17_MoveFrame ==
    [][ IsTetrisMoveStep =>
            LET target == placedAt(tgame, tgame.pieceX + last'.dx,
                                          tgame.pieceY + last'.dy)
            IN  IF PieceBlocked(target)
                THEN ~last'.ok /\ tgame' = tgame
                ELSE last'.ok /\ tgame' = target
      ]_vars

\* A move(1, 0) returned false because the column to the right of the piece
\* holds a locked cell.
C17_Witness ==
    /\ tgame # NoGame
    /\ last.op = "move"
    /\ ~last.ok
    /\ last.dx = 1
    /\ \E c \in CellsAt(tgame, tgame.currShape) :
          /\ c[1] + 1 < BoardWidth
          /\ c[2] >= 0
          /\ tgame.board[c[2]][c[1] + 1] # 0

(***************************************************************************)
(* Both Run loops: properties                                              *)
(***************************************************************************)
\* From game g to game h nothing but the paused flag changed.
OnlyPausedChanged(g, h) == [h EXCEPT !.paused = g.paused] = g

\* C18: in both Run loops a step that changes the paused flag changes no
\* other field of the game, and a step taken while the game is paused (a
\* key, a command or the timer) changes nothing but that flag; so the game
\* after pause and continue is the game before the pause.
C18_PauseFrame ==
    [][ /\ sgame # NoGame =>
            ((sgame.paused \/ sgame'.paused # sgame.paused)
                 => OnlyPausedChanged(sgame, sgame'))
        /\ tgame # NoGame =>
            ((tgame.paused \/ tgame'.paused # tgame.paused)
                 => OnlyPausedChanged(tgame, tgame'))
      ]_vars

\* A tetris game in which commands were handled has been paused and was
\* just continued.
C18_Witness ==
    /\ tgame # NoGame
    /\ last.op = "key"
    /\ ~tgame.paused
    /\ cmds > 0

\* C19: in every state with gameOver false, whichever of move, rotate, drop
\* (with its spawnPiece) and reset was called last, every filled cell of the
\* current piece has 0 <= boardX < BoardWidth and boardY < BoardHeight and,
\* when boardY >= 0, lies on a zero cell of the board.
C19_PieceOnFreeCells ==
    (tgame # NoGame /\ ~tgame.gameOver) =>
        \A c \in CellsAt(tgame, tgame.currShape) :
            /\ 0 <= c[1] /\ c[1] < BoardWidth
            /\ c[2] < BoardHeight
            /\ c[2] >= 0 => tgame.board[c[2]][c[1]] = 0

\* A drop() locked a piece and spawned the next one right above a locked
\* cell, and the game goes on.
C19_Witness ==
    /\ tgame # NoGame
    /\ last.op = "drop"
    /\ ~last.ok
    /\ ~tgame.gameOver
    /\ \E c \in CellsAt(tgame, tgame.currShape) :
          /\ c[2] + 1 < BoardHeight
          /\ tgame.board[c[2] + 1][c[1]] # 0

\* The step is one call of drop(), by the down arrow or by the timer.
IsDropStep == last'.op = "drop" /\ cmds' = cmds + 1

\* The board of g with the cells of its piece set to currPiece + 1.
BoardWithPiece(g) ==
    [y \in 0..(BoardHeight - 1) |->
        [x \in 0..(BoardWidth - 1) |->
            IF <<x, y>> \in CellsAt(g, g.currShape) THEN g.currPiece + 1
            ELSE g.board[y][x]]]

\* The rows of board that have a zero cell, from the top down.
RowsKept(board) ==
    SelectSeq([i \in 1..BoardHeight |-> board[i - 1]],
              LAMBDA row : \E x \in 0..(BoardWidth - 1) : row[x] = 0)

\* board without its complete rows: the rows kept, under as many empty rows.
WithoutCompleteRows(board) ==
    LET kept == RowsKept(board)
        n    == BoardHeight - Len(kept)
    IN  [y \in 0..(BoardHeight - 1) |-> IF y < n THEN ZeroRow ELSE kept[y - n + 1]]

\* C20: a drop() whose piece can go down one row returns true and changes
\* pieceY by +1 and nothing else.  One whose piece cannot returns false
\* after lockPiece, clearLines and spawnPiece in this order: the rows
\* cleared and scored are the complete rows of the board with the piece
\* locked into it, and the piece announced by nextPiece is spawned and
\* tested for collision on the board left by the clearing.
C20_DropOrder ==
    [][ IsDropStep =>
            IF ~PieceBlocked(placedAt(tgame, tgame.pieceX, tgame.pieceY + 1))
            THEN /\ last'.ok
                 /\ tgame' = [tgame EXCEPT !.pieceY = tgame.pieceY + 1]
            ELSE LET locked == BoardWithPiece(tgame)
                     n      == BoardHeight - Len(RowsKept(locked))
                     shape  == Shapes[tgame.nextPiece]
                 IN  /\ ~last'.ok
                     /\ last'.n = n
                     /\ tgame'.board = WithoutCompleteRows(locked)
                     /\ tgame'.lines = tgame.lines + n
                     /\ tgame'.score = tgame.score +
                            (IF n = 0 THEN 0
                             ELSE <<100, 300, 500, 800>>[n] * tgame.level)
                     /\ tgame'.level =
                            IF n = 0 THEN tgame.level
                            ELSE (tgame.lines + n) \div 10 + 1
                     /\ tgame'.currPiece = tgame.nextPiece - 1
                     /\ tgame'.currShape = shape
                     /\ tgame'.pieceX = BoardWidth \div 2 - Len(shape[1]) \div 2
                     /\ tgame'.pieceY = 0
                     /\ tgame'.paused = tgame.paused
                     /\ tgame'.gameOver <=> PieceBlocked(tgame')
      ]_vars

\* A drop() locked an upright I piece in the last column and with it
\* completed four rows; they were cleared, the rows above came down by four,
\* and the O piece spawned fits in the rows that were taken before.
C20_Witness ==
    /\ tgame # NoGame
    /\ last.op = "drop"
    /\ ~last.ok
    /\ last.n = 4
    /\ tgame.score = 800
    /\ tgame.currPiece = 1
    /\ ~tgame.gameOver
    /\ tgame.board[4] = ZeroRow
    /\ tgame.board[5][4] # 0
    /\ tgame.board[BoardHeight - 1][BoardWidth - 1] = 0

(***************************************************************************)
(* snake: the board grid                                                   *)
(***************************************************************************)
\* C21: in every reachable state a cell of the snake's board is non-zero
\* exactly when it is a cell of the body.
C21_BoardMatchesBody ==
    sgame # NoGame =>
        \A p \in SnakeCells : (sgame.board[p.y][p.x] # 0) <=> OnSnake(sgame, p)

(***************************************************************************)
(* tetris: the loops end                                                   *)
(***************************************************************************)
\* C22: from every game with gameOver false the hard drop loop of Run ends
\* (drop() returns false) after at most BoardHeight calls of drop(), and the
\* scan of clearLines, with its re-examination of a row just filled from
\* above, ends on every board (after at most 2 * BoardHeight iterations).
C22_LoopsTerminate ==
    /\ [](last.calls <= BoardHeight)
    /\ [](last.iters <= 2 * BoardHeight)
    /\ (last.op = "harddrop") ~> (last.op = "done")
    /\ (last.op = "clearLines") ~> (last.op = "done")

\* A hard drop loop ended after BoardHeight calls of drop(), the last of
\* which scanned the BoardHeight rows.
C22_Witness ==
    /\ last.op = "done"
    /\ last.calls = BoardHeight
    /\ last.iters = BoardHeight

(***************************************************************************)
(* tetris: the table of the shapes                                         *)
(***************************************************************************)
\* The last call ended with spawnPiece.
JustSpawned == last.op = "reset" \/ (last.op = "drop" /\ ~last.ok)

\* C23: whatever spawnPiece, rotate, move, drop and reset calls were made,
\* the table holds the 7 original matrices; so the matrix a spawn of index i
\* installs, which is the table entry itself and not a copy, is the original
\* one, and so is the matrix the preview of nextPiece reads.
C23_ShapeTableUnchanged ==
    /\ \A i \in 1..NumShapes : heap.arr[i] = Shapes[i]
    /\ tgame.currShape = heap.arr[heap.curr]
    /\ JustSpawned =>
          /\ heap.curr = tgame.currPiece + 1
          /\ tgame.currShape = Shapes[tgame.currPiece + 1]
    /\ tgame.nextPiece > 0 => heap.arr[tgame.nextPiece] = Shapes[tgame.nextPiece]

\* rotate() read the cells of a table entry (the piece had not been rotated
\* since its spawn) and the piece now has another matrix than that entry.
C23_Witness ==
    /\ last.op = "rotate"
    /\ last.ok
    /\ last.from = tgame.currPiece + 1
    /\ heap.curr > NumShapes
    /\ tgame.currShape # Shapes[tgame.currPiece + 1]

(***************************************************************************)
(* tetris: the rows cleared by one drop                                    *)
(***************************************************************************)
\* C24: between the commands of Run no row of the board is without a zero
\* cell, and the number of rows the last drop() cleared, which indexes the
\* score table, is at most 4, the last index of the table.
C24_AtMostFourRows ==
    /\ \A y \in 0..(BoardHeight - 1) : \E x \in 0..(BoardWidth - 1) : tgame.board[y][x] = 0
    /\ last.n >= 0
    /\ last.n <= Len(scoreTable) - 1

\* A hard drop completed four rows at once: the last entry of the score
\* table was used and no complete row is left.
C24_Witness ==
    /\ last.op = "harddrop"
    /\ last.n = Len(scoreTable) - 1
    /\ tgame.lines = 4
    /\ tgame.score = scoreTable[5]

(***************************************************************************)
(* tetris: the cells on the board                                          *)
(***************************************************************************)
\* The number of non-zero cells of board.
CellCount(board) ==
    Cardinality({c \in (0..(BoardWidth - 1)) \X (0..(BoardHeight - 1)) :
                    board[c[2]][c[1]] # 0})

\* The game with its piece where the drop() or hard drop on it locks it.
Landed(g) == placedAt(g, getGhostPosition(g)[1], getGhostPosition(g)[2])

\* What a step of Run does to the cells and to lines: a step that locks a
\* piece writes exactly four cells, all inside the board and all zero
\* before, each with currPiece + 1, and the count of non-zero cells grows
\* by 4 and falls by BoardWidth for each row cleared; reset leaves no cell
\* and no line; no other step changes board or lines.
CellsStep ==
    IF IsSpawnStep
    THEN LET landed == Landed(tgame)
             cells  == CellsAt(landed, landed.currShape)
         IN  /\ Cardinality(cells) = 4
             /\ \A c \in cells :
                   /\ c[1] \in 0..(BoardWidth - 1)
                   /\ c[2] \in 0..(BoardHeight - 1)
                   /\ tgame.board[c[2]][c[1]] = 0
             /\ tgame'.board = WithoutCompleteRows(BoardWithPiece(landed))
             /\ tgame'.lines >= tgame.lines
             /\ CellCount(tgame'.board) =
                    CellCount(tgame.board) + 4
                        - BoardWidth * (tgame'.lines - tgame.lines)
    ELSE IF last'.op = "reset"
    THEN CellCount(tgame'.board) = 0 /\ tgame'.lines = 0
    ELSE tgame'.board = tgame.board /\ tgame'.lines = tgame.lines

\* C25: under Run, which issues no command while gameOver is true, the
\* number of non-zero cells of the board is 4 * (pieces locked) -
\* BoardWidth * lines since the last reset: the game starts with no line
\* and four cells for each piece locked, and every step keeps the equation
\* (every lock writes exactly four cells that were zero and inside the
\* board, each with the shape index + 1).
C25_FourCellsPerLock ==
    /\ (tgame.lines = 0 /\ CellCount(tgame.board) % 4 = 0)
    /\ [][CellsStep]_vars

\* A hard drop locked a piece in the top row of the board, on a board that
\* holds the four cells of every piece locked since the game began.
C25_Witness ==
    /\ last.op = "harddrop"
    /\ tgame.lines = 0
    /\ \E x \in 0..(BoardWidth - 1) : tgame.board[0][x] # 0
    /\ CellCount(tgame.board) = 4 * (StartRounds + 2)

=============================================================================
